---- MODULE Spec2Model ----
(***************************************************************************)
(* Model of the chat backend of agent/scripts/main_fastapi_app.py: the     *)
(* in-memory sliding-window rate limiter, the /chat handler with its       *)
(* background persistence tasks, and the two periodic background loops.    *)
(***************************************************************************)
EXTENDS Integers, Sequences, FiniteSets, TLC

(***************************************************************************)
(* Bounds of the model.                                                    *)
(***************************************************************************)
\* time.time() is a float: the model counts it in ticks of 1/TicksPerSecond s
TicksPerSecond == 2
\* last tick of time.time() the limiter model explores
MaxTime == 4
\* RATE_LIMIT_REQUESTS is drawn from 1..MaxRateLimitRequests
MaxRateLimitRequests == 2
\* RATE_LIMIT_WINDOW (seconds) is drawn from 1..MaxRateLimitWindow
MaxRateLimitWindow == 2

Clients == {"10.0.0.1", "10.0.0.2"}

NoCheck == [client |-> "none", time |-> 0, outcome |-> "none", retry_after |-> 0]

VARIABLES
    current_time,          \* time.time(), in ticks
    requests_per_window,   \* int(os.getenv('RATE_LIMIT_REQUESTS', 100))
    window_seconds,        \* int(os.getenv('RATE_LIMIT_WINDOW', 3600))
    rate_limit_storage,    \* dict: client_ip -> list of timestamps (ticks)
    permits,               \* history: client_ip -> timestamps of the permitted calls
    last_check,            \* history: the latest rate_limit_check call and its result
    utcnow,                \* datetime.utcnow(), the clock that stamps the rows
    conversation_logs,     \* table conversation_logs: a set of ConversationLog rows
    user_sessions,         \* table user_sessions: a set of UserSession rows
    chats,                 \* the /chat requests: chat id -> state of its handling
    system_metrics,        \* table system_metrics: a set of SystemMetrics rows
    error_logs,            \* table error_logs: a set of ErrorLog rows
    metrics_pc,            \* collect_system_metrics: where the loop stands
    metrics_wake,          \* collect_system_metrics: when its asyncio.sleep ends
    metrics_runs,          \* history: iterations of collect_system_metrics begun
    cleanup_pc,            \* cleanup_old_data: where the loop stands
    cleanup_wake,          \* cleanup_old_data: when its asyncio.sleep ends
    cleanup_runs,          \* history: sweeps of cleanup_old_data begun
    cleanup_log            \* the counts logged by the latest sweep, or its failure

limiterVars == <<current_time, requests_per_window, window_seconds,
                 rate_limit_storage, permits, last_check>>

dbVars == <<utcnow, conversation_logs, user_sessions>>

loopVars == <<system_metrics, error_logs, metrics_pc, metrics_wake, metrics_runs,
              cleanup_pc, cleanup_wake, cleanup_runs, cleanup_log>>

vars == <<limiterVars, dbVars, chats, loopVars>>

(***************************************************************************)
(* Rate limiter: rate_limit_check                                          *)
(***************************************************************************)
\* Python int(x) of the rational n/d (d > 0): truncation toward zero
IntTrunc(n, d) == IF n >= 0 THEN n \div d ELSE -((-n) \div d)

Min(S) == CHOOSE x \in S : \A y \in S : x <= y

SeqRange(s) == {s[i] : i \in DOMAIN s}

\* cutoff_time = current_time - window_seconds (in ticks)
CutoffTime(now, window) == now - window * TicksPerSecond

\* [timestamp for timestamp in rate_limit_storage[client_ip] if timestamp > cutoff_time]
CleanOldEntries(stamps, cutoff) ==
    LET Keep(ts) == ts > cutoff IN SelectSeq(stamps, Keep)

\* mutant of LimitExceeded: an off-by-one comparison
LimitExceededOffByOne(count, limit) == count > limit

\* len(rate_limit_storage[client_ip]) >= requests_per_window
LimitExceeded(count, limit) == count >= limit

\* int(window_seconds - (current_time - min(rate_limit_storage[client_ip]))), in seconds
RetryAfter(stamps, now, window) ==
    IntTrunc(window * TicksPerSecond - (now - Min(SeqRange(stamps))), TicksPerSecond)

\* mutant of StorageAfterDeny: the denied call is recorded too
StorageAfterDenyCounted(kept, now) == Append(kept, now)

\* the list left in rate_limit_storage when the call raises the 429
StorageAfterDeny(kept, now) == kept

\* mutant of StorageAfterPermit: the permitted call is not recorded
StorageAfterPermitNotCounted(kept, now) == kept

\* rate_limit_storage[client_ip].append(current_time)
StorageAfterPermit(kept, now) == Append(kept, now)

\* the list the call works on: the cleaned entry, or [] for a new client_ip
KeptEntries(c) ==
    IF c \in DOMAIN rate_limit_storage
    THEN CleanOldEntries(rate_limit_storage[c], CutoffTime(current_time, window_seconds))
    ELSE <<>>

RateLimitDenied(c) == LimitExceeded(Len(KeptEntries(c)), requests_per_window)

SetStorage(c, stamps) ==
    [k \in DOMAIN rate_limit_storage \cup {c} |->
        IF k = c THEN stamps ELSE rate_limit_storage[k]]

\* one call of rate_limit_check for client_ip c at time.time() = current_time
RateLimitCheck(c) ==
    LET kept == KeptEntries(c) IN
    /\ IF RateLimitDenied(c)
       THEN /\ rate_limit_storage' = SetStorage(c, StorageAfterDeny(kept, current_time))
            /\ permits' = permits
            /\ last_check' = [client |-> c, time |-> current_time, outcome |-> "deny",
                              retry_after |-> RetryAfter(kept, current_time, window_seconds)]
       ELSE /\ rate_limit_storage' = SetStorage(c, StorageAfterPermit(kept, current_time))
            /\ permits' = [permits EXCEPT ![c] = Append(@, current_time)]
            /\ last_check' = [client |-> c, time |-> current_time, outcome |-> "permit",
                              retry_after |-> 0]
    /\ UNCHANGED <<current_time, requests_per_window, window_seconds>>

\* time.time() moves on (non-decreasing between calls)
AdvanceTime ==
    /\ current_time < MaxTime
    /\ current_time' = current_time + 1
    /\ UNCHANGED <<requests_per_window, window_seconds, rate_limit_storage,
                   permits, last_check>>
    /\ UNCHANGED <<dbVars, chats, loopVars>>

\* a request that stops at the limiter or is followed no further
LimiterCall ==
    /\ \E c \in Clients : RateLimitCheck(c)
    /\ UNCHANGED <<dbVars, chats, loopVars>>

(***************************************************************************)
(* /chat: chat_with_claude and its background tasks                        *)
(***************************************************************************)
\* number of /chat requests the model follows
MaxChats == 2
\* .limit(10) of the history query
HistoryLimit == 10

ChatIds == 1..MaxChats

\* request.session_id: a caller-chosen id, or None
RequestSessionIds == {"s1", "None"}

\* str(uuid.uuid4()) of request k: an id no other request and no stored row carries
Uuid4(k) == "uuid" \o ToString(k)

\* request.message of request k, and the text the provider answers it with
UserText(k) == "q" \o ToString(k)
ReplyText(k) == "a" \o ToString(k)

\* what anthropic_client.messages.create does: text, no content blocks, or a raise
ProviderOutcomes == {"text", "empty", "RateLimitError", "APIError", "Exception"}

NoResponse == [status |-> 0, success |-> FALSE, error_type |-> "none", response |-> ""]
NoRead == [state |-> "none", id |-> 0, total_messages |-> 0]

IdleChat ==
    [pc |-> "idle", client |-> "none", session_id |-> "none", message |-> "",
     messages |-> <<>>, provider |-> "none", response |-> NoResponse,
     tasks |-> <<>>, read |-> NoRead, saw |-> "none", log_write |-> "none",
     stats_write |-> "none"]

\* the HTTPException responses (http_exception_handler)
HttpError(status, error_type) ==
    [status |-> status, success |-> FALSE, error_type |-> error_type, response |-> ""]

\* the ChatResponse bodies returned with status 200
ChatResponse(success, text, error_type) ==
    [status |-> 200, success |-> success, error_type |-> error_type, response |-> text]

\* session_id = request.session_id or str(uuid.uuid4())
SessionIdOf(k, requested) == IF requested = "None" THEN Uuid4(k) ELSE requested

MaxOf(S) == CHOOSE x \in S : \A y \in S : x >= y

\* autoincrement primary key of the next row of a table
NextId(table) == IF table = {} THEN 1 ELSE MaxOf({r.id : r \in table}) + 1

\* filter(ConversationLog.session_id == session_id, ConversationLog.success == True)
SuccessfulOf(logs, sid) == {r \in logs : r.session_id = sid /\ r.success}

\* order_by(ConversationLog.timestamp.desc()).limit(n).all()
RECURSIVE LatestFirst(_, _)
LatestFirst(rows, n) ==
    IF n = 0 \/ rows = {} THEN <<>>
    ELSE LET newest == CHOOSE r \in rows : \A o \in rows : o.timestamp <= r.timestamp
         IN <<newest>> \o LatestFirst(rows \ {newest}, n - 1)

\* reversed(recent_conversations)
Reversed(s) == [i \in 1..Len(s) |-> s[Len(s) + 1 - i]]

UserMessage(text) == [role |-> "user", content |-> text]
AssistantMessage(text) == [role |-> "assistant", content |-> text]

\* the two messages.append calls of the loop body, for each conv in order
RECURSIVE Flatten(_)
Flatten(convs) ==
    IF convs = <<>> THEN <<>>
    ELSE <<UserMessage(Head(convs).user_message),
           AssistantMessage(Head(convs).assistant_response)>> \o Flatten(Tail(convs))

\* mutant of BuildMessages: the history is left newest first
BuildMessagesNotReversed(logs, sid, text) ==
    Flatten(LatestFirst(SuccessfulOf(logs, sid), HistoryLimit)) \o <<UserMessage(text)>>

\* the messages list passed to anthropic_client.messages.create
BuildMessages(logs, sid, text) ==
    Flatten(Reversed(LatestFirst(SuccessfulOf(logs, sid), HistoryLimit)))
        \o <<UserMessage(text)>>

Task(fn, text, success, error_type) ==
    [fn |-> fn, assistant_response |-> text, success |-> success, error_type |-> error_type]

\* background_tasks.add_task(...) calls made for a provider outcome: two on
\* success; none when the HTTPException of the inner handlers is re-raised
TasksAfterProvider(text, raised) ==
    IF raised THEN <<>>
    ELSE <<Task("log_conversation", text, TRUE, "none"),
           Task("update_session_stats", "", TRUE, "none")>>

\* the task added by the outer `except Exception` handler
TasksAfterUnexpected ==
    <<Task("log_conversation", "None", FALSE, "general_error")>>

\* the response the handler gives for a provider outcome
ResponseAfterProvider(k, outcome) ==
    CASE outcome = "text" -> ChatResponse(TRUE, ReplyText(k), "none")
      [] outcome = "empty" -> ChatResponse(TRUE, "", "none")
      [] outcome = "RateLimitError" -> HttpError(429, "api_rate_limit")
      [] outcome = "APIError" -> HttpError(503, "api_error")
      [] OTHER -> HttpError(500, "general_error")

ProviderRaised(outcome) == outcome \in {"RateLimitError", "APIError", "Exception"}

\* rate limiting, session id, history query and message list of request k;
\* query_ok = FALSE is the history query raising
ChatStart(k) ==
    /\ chats[k].pc = "idle"
    /\ \A j \in ChatIds : j < k => chats[j].pc # "idle"
    /\ \E c \in Clients, requested \in RequestSessionIds, query_ok \in BOOLEAN :
        LET sid == SessionIdOf(k, requested) IN
        /\ RateLimitCheck(c)
        /\ chats' = [chats EXCEPT ![k] =
             IF RateLimitDenied(c)
             THEN [@ EXCEPT !.pc = "responded", !.client = c,
                            !.response = HttpError(429, "none")]
             ELSE IF query_ok
             THEN [@ EXCEPT !.pc = "calling", !.client = c, !.session_id = sid,
                            !.message = UserText(k),
                            !.messages = BuildMessages(conversation_logs, sid, UserText(k))]
             ELSE [@ EXCEPT !.pc = "responded", !.client = c, !.session_id = sid,
                            !.message = UserText(k),
                            !.tasks = TasksAfterUnexpected,
                            !.response = ChatResponse(FALSE, "", "general_error")]]
    /\ UNCHANGED <<dbVars, loopVars>>

\* anthropic_client.messages.create returns or raises, and the handler answers
ProviderReturns(k) ==
    /\ chats[k].pc = "calling"
    /\ \E outcome \in ProviderOutcomes :
        chats' = [chats EXCEPT ![k] =
            [@ EXCEPT !.pc = "responded", !.provider = outcome,
                      !.tasks = TasksAfterProvider(
                                    IF outcome = "text" THEN ReplyText(k) ELSE "",
                                    ProviderRaised(outcome)),
                      !.response = ResponseAfterProvider(k, outcome)]]
    /\ UNCHANGED <<limiterVars, dbVars, loopVars>>

\* assistant_response or ""
OrEmpty(text) == IF text = "None" THEN "" ELSE text

\* ConversationLog(...) as built by log_conversation for request k
NewConversation(k, task) ==
    [id |-> NextId(conversation_logs), session_id |-> chats[k].session_id,
     timestamp |-> utcnow, user_message |-> chats[k].message,
     assistant_response |-> OrEmpty(task.assistant_response),
     success |-> task.success, error_type |-> task.error_type, exchange |-> k]

\* mutant of RolledBack: the pending rows stay in the table
RolledBackKeepsPending(table, pending) == table \cup pending

\* db.rollback() after a failed commit: the table without the pending rows
RolledBack(table, pending) == table

\* db.add(row); db.commit()
Committed(table, pending) == table \cup pending

NextTask(k) == Head(chats[k].tasks)
HasTask(k, fn) ==
    /\ chats[k].pc = "responded"
    /\ chats[k].tasks # <<>>
    /\ NextTask(k).fn = fn

\* background task log_conversation of request k; commit_ok = FALSE is a raise
\* inside the try block
LogConversation(k) ==
    /\ HasTask(k, "log_conversation")
    /\ \E commit_ok \in BOOLEAN :
        LET row == NewConversation(k, NextTask(k)) IN
        /\ conversation_logs' = IF commit_ok THEN Committed(conversation_logs, {row})
                                ELSE RolledBack(conversation_logs, {row})
        /\ utcnow' = IF commit_ok THEN utcnow + 1 ELSE utcnow
        /\ chats' = [chats EXCEPT ![k] =
             [@ EXCEPT !.tasks = Tail(@),
                       !.log_write = IF commit_ok THEN "committed" ELSE "failed"]]
    /\ UNCHANGED <<limiterVars, user_sessions, loopVars>>

\* db.query(UserSession).filter(UserSession.session_uuid == session_id).first()
FirstSession(sid) ==
    IF \E r \in user_sessions : r.session_uuid = sid
    THEN LET row == CHOOSE r \in user_sessions : r.session_uuid = sid
         IN [state |-> "found", id |-> row.id, total_messages |-> row.total_messages]
    ELSE [state |-> "absent", id |-> 0, total_messages |-> 0]

\* background task update_session_stats of request k, up to the query;
\* query_ok = FALSE is the query raising
UpdateSessionQuery(k) ==
    /\ HasTask(k, "update_session_stats")
    /\ chats[k].read.state = "none"
    /\ \E query_ok \in BOOLEAN :
        chats' = [chats EXCEPT ![k] =
            IF query_ok THEN [@ EXCEPT !.read = FirstSession(chats[k].session_id),
                                       !.saw = FirstSession(chats[k].session_id).state]
            ELSE [@ EXCEPT !.tasks = Tail(@), !.stats_write = "failed"]]
    /\ UNCHANGED <<limiterVars, dbVars, loopVars>>

\* UserSession(session_uuid=session_id, ...) with the column defaults
NewSession(sid) ==
    [id |-> NextId(user_sessions), session_uuid |-> sid, created_at |-> utcnow,
     last_activity |-> utcnow, total_messages |-> 0, total_tokens |-> 0,
     total_processing_time |-> 0, total_errors |-> 0]

\* mutant of TouchedSession: an increment of the stored value (UPDATE ... + 1)
TouchedSessionAddsToStored(row, read) ==
    [row EXCEPT !.last_activity = utcnow, !.total_messages = row.total_messages + 1]

\* session.last_activity = datetime.utcnow(); session.total_messages += 1, on the
\* object loaded by the query: the UPDATE writes the value read plus one
TouchedSession(row, read) ==
    [row EXCEPT !.last_activity = utcnow, !.total_messages = read.total_messages + 1]

\* the table after the flush of update_session_stats: the INSERT of a new row
\* or the UPDATE of the row that was read
SessionsAfterFlush(k) ==
    IF chats[k].read.state = "absent"
    THEN Committed(user_sessions, {NewSession(chats[k].session_id)})
    ELSE {IF r.id = chats[k].read.id THEN TouchedSession(r, chats[k].read) ELSE r :
            r \in user_sessions}

\* unique=True on session_uuid makes the INSERT of a second row raise
UniqueViolation(k) ==
    /\ chats[k].read.state = "absent"
    /\ \E r \in user_sessions : r.session_uuid = chats[k].session_id

\* background task update_session_stats of request k, from the branch on the
\* query result to db.commit(); commit_ok = FALSE is the commit raising
UpdateSessionCommit(k) ==
    /\ HasTask(k, "update_session_stats")
    /\ chats[k].read.state # "none"
    /\ \E commit_ok \in BOOLEAN :
        LET ok == commit_ok /\ ~UniqueViolation(k) IN
        /\ user_sessions' = IF ok THEN SessionsAfterFlush(k)
                            ELSE RolledBack(user_sessions, {})
        /\ utcnow' = IF ok THEN utcnow + 1 ELSE utcnow
        /\ chats' = [chats EXCEPT ![k] =
             [@ EXCEPT !.tasks = Tail(@), !.read = NoRead,
                       !.stats_write = IF ok THEN "committed"
                                       ELSE IF UniqueViolation(k) THEN "conflict"
                                       ELSE "failed"]]
    /\ UNCHANGED <<limiterVars, conversation_logs, loopVars>>

ChatFinished(k) == chats[k].pc = "responded" /\ chats[k].tasks = <<>>

(***************************************************************************)
(* Background loops: collect_system_metrics and cleanup_old_data           *)
(***************************************************************************)
\* asyncio.sleep(300) of collect_system_metrics, in seconds
MetricsInterval == 300
\* asyncio.sleep(86400) of cleanup_old_data, in seconds
CleanupInterval == 86400
\* timedelta(days=30)
RetentionDays == 30
\* last day of datetime.utcnow() the loop model explores
MaxDays == 2
\* wake-ups of collect_system_metrics the model follows on time; the later ones
\* are served late, when the clock has reached a wake-up of cleanup_old_data
MaxTimelyMetrics == 2

Days(n) == n * 86400

NoCleanupLog == [result |-> "none", old_metrics |-> 0, old_errors |-> 0]

\* SystemMetrics(...) with timestamp default datetime.utcnow
NewMetrics(table, now) == [id |-> NextId(table), timestamp |-> now]

\* cutoff_date = datetime.utcnow() - timedelta(days=30)
CutoffDate(now) == now - Days(RetentionDays)

\* mutant of OldRows: the comparison is inverted
OldRowsInverted(table, cutoff) == {r \in table : r.timestamp > cutoff}

\* the rows matched by filter(<Model>.timestamp < cutoff_date)
OldRows(table, cutoff) == {r \in table : r.timestamp < cutoff}

\* mutant of SweptConversations: conversations past the retention are purged too
SweptConversationsPurged(logs, cutoff) == {r \in logs : r.timestamp >= cutoff}

\* conversation_logs after a sweep: no statement of the sweep touches the table
SweptConversations(logs, cutoff) == logs

\* user_sessions after a sweep: no statement of the sweep touches the table
SweptSessions(sessions, cutoff) == sessions

\* mutant of AfterCaught: the loop gives up after a failed iteration
AfterCaughtExits(interval) == [pc |-> "exited", wake |-> 0]

\* what follows the except block: the loop goes on to its asyncio.sleep
AfterCaught(interval) == [pc |-> "sleep", wake |-> utcnow + interval]

\* try block of collect_system_metrics; commit_ok = FALSE is a raise while
\* sampling or writing
MetricsTry ==
    /\ metrics_pc = "try"
    /\ \E commit_ok \in BOOLEAN :
        IF commit_ok
        THEN /\ system_metrics' = Committed(system_metrics,
                                            {NewMetrics(system_metrics, utcnow)})
             /\ metrics_pc' = "sleep"
             /\ metrics_wake' = utcnow + MetricsInterval
        ELSE /\ system_metrics' = RolledBack(system_metrics,
                                             {NewMetrics(system_metrics, utcnow)})
             /\ metrics_pc' = "caught"
             /\ metrics_wake' = metrics_wake
    /\ UNCHANGED <<limiterVars, dbVars, chats, error_logs, metrics_runs,
                   cleanup_pc, cleanup_wake, cleanup_runs, cleanup_log>>

\* except block of collect_system_metrics, then await asyncio.sleep(300)
MetricsCaught ==
    /\ metrics_pc = "caught"
    /\ metrics_pc' = AfterCaught(MetricsInterval).pc
    /\ metrics_wake' = AfterCaught(MetricsInterval).wake
    /\ UNCHANGED <<limiterVars, dbVars, chats, system_metrics, error_logs, metrics_runs,
                   cleanup_pc, cleanup_wake, cleanup_runs, cleanup_log>>

\* asyncio.sleep(300) returns: the next iteration of the while loop
MetricsWake ==
    /\ metrics_pc = "sleep"
    /\ utcnow >= metrics_wake
    /\ metrics_pc' = "try"
    /\ metrics_runs' = metrics_runs + 1
    /\ UNCHANGED <<limiterVars, dbVars, chats, system_metrics, error_logs, metrics_wake,
                   cleanup_pc, cleanup_wake, cleanup_runs, cleanup_log>>

\* asyncio.sleep(86400) of cleanup_old_data returns
CleanupWake ==
    /\ cleanup_pc = "sleep"
    /\ utcnow >= cleanup_wake
    /\ cleanup_pc' = "sweep"
    /\ cleanup_runs' = cleanup_runs + 1
    /\ UNCHANGED <<limiterVars, dbVars, chats, system_metrics, error_logs,
                   metrics_pc, metrics_wake, metrics_runs, cleanup_wake, cleanup_log>>

\* the sweep of cleanup_old_data, from SessionLocal() to the logger.info, and
\* the start of the next iteration's sleep; commit_ok = FALSE is a raise before
\* the commit has taken effect, which leaves the deletes uncommitted
CleanupSweep ==
    /\ cleanup_pc = "sweep"
    /\ \E commit_ok \in BOOLEAN :
        LET cutoff == CutoffDate(utcnow)
            old_metrics == OldRows(system_metrics, cutoff)
            old_errors == OldRows(error_logs, cutoff)
        IN IF commit_ok
           THEN /\ system_metrics' = system_metrics \ old_metrics
                /\ error_logs' = error_logs \ old_errors
                /\ conversation_logs' = SweptConversations(conversation_logs, cutoff)
                /\ user_sessions' = SweptSessions(user_sessions, cutoff)
                /\ cleanup_log' = [result |-> "ok",
                                   old_metrics |-> Cardinality(old_metrics),
                                   old_errors |-> Cardinality(old_errors)]
                /\ cleanup_pc' = "sleep"
                /\ cleanup_wake' = utcnow + CleanupInterval
           ELSE /\ UNCHANGED <<system_metrics, error_logs, conversation_logs,
                               user_sessions, cleanup_wake>>
                /\ cleanup_log' = [result |-> "failed", old_metrics |-> 0,
                                   old_errors |-> 0]
                /\ cleanup_pc' = "caught"
    /\ UNCHANGED <<limiterVars, utcnow, chats, metrics_pc, metrics_wake, metrics_runs,
                   cleanup_runs>>

\* except block of cleanup_old_data, then the sleep of the next iteration
CleanupCaught ==
    /\ cleanup_pc = "caught"
    /\ cleanup_pc' = AfterCaught(CleanupInterval).pc
    /\ cleanup_wake' = AfterCaught(CleanupInterval).wake
    /\ UNCHANGED <<limiterVars, dbVars, chats, system_metrics, error_logs,
                   metrics_pc, metrics_wake, metrics_runs, cleanup_runs, cleanup_log>>

\* the instants the clock is followed to: the pending wake-up of either loop
NextInstants ==
    {t \in {cleanup_wake} \cup
           (IF metrics_runs < MaxTimelyMetrics THEN {metrics_wake} ELSE {}) :
        t > utcnow /\ t <= Days(MaxDays)}

\* datetime.utcnow() moves on while the process waits
ClockAdvance ==
    /\ \E t \in NextInstants : utcnow' = t
    /\ UNCHANGED <<limiterVars, conversation_logs, user_sessions, chats, loopVars>>

(***************************************************************************)
(* Specifications                                                          *)
(***************************************************************************)
InitLimiterState ==
    /\ current_time = 0
    /\ rate_limit_storage = <<>>
    /\ permits = [c \in Clients |-> <<>>]
    /\ last_check = NoCheck

InitEmptyStore ==
    /\ utcnow = 1
    /\ conversation_logs = {}
    /\ user_sessions = {}

InitNoChats == chats = [k \in ChatIds |-> IdleChat]

\* lifespan has created the two tasks: collect_system_metrics is about to enter
\* its first iteration, cleanup_old_data has begun its first sleep
InitLoopsStarted ==
    /\ metrics_pc = "try"
    /\ metrics_wake = utcnow
    /\ metrics_runs = 1
    /\ cleanup_pc = "sleep"
    /\ cleanup_wake = utcnow + CleanupInterval
    /\ cleanup_runs = 0
    /\ cleanup_log = NoCleanupLog

InitNoMetrics ==
    /\ system_metrics = {}
    /\ error_logs = {}

\* the limiter alone, under every configuration within the bounds
InitLimiter ==
    /\ InitLimiterState
    /\ requests_per_window \in 1..MaxRateLimitRequests
    /\ window_seconds \in 1..MaxRateLimitWindow
    /\ InitEmptyStore
    /\ InitNoChats
    /\ InitNoMetrics
    /\ InitLoopsStarted

NextLimiter == AdvanceTime \/ LimiterCall

SpecLimiter == InitLimiter /\ [][NextLimiter]_vars

\* the process after startup with an empty store, configured with
\* RATE_LIMIT_REQUESTS=1 and RATE_LIMIT_WINDOW=1
InitChat ==
    /\ InitLimiterState
    /\ requests_per_window = 1
    /\ window_seconds = 1
    /\ InitEmptyStore
    /\ InitNoChats
    /\ InitNoMetrics
    /\ InitLoopsStarted

NextChat ==
    \E k \in ChatIds :
        \/ ChatStart(k)
        \/ ProviderReturns(k)
        \/ LogConversation(k)
        \/ UpdateSessionQuery(k)
        \/ UpdateSessionCommit(k)

SpecChat == InitChat /\ [][NextChat]_vars

(***************************************************************************)
(* A store that already holds the conversations of earlier exchanges       *)
(***************************************************************************)
\* most ConversationLog rows the store holds when the request arrives
MaxStoredRows == 12

AtMostOne(S) == {{}} \cup {{x} : x \in S}

\* row i of the stored history: written at time i by an earlier exchange of
\* session s1 (or s2), which succeeded or was logged as failed
StoredConversation(i, failed, other) ==
    [id |-> i, session_id |-> IF i \in other THEN "s2" ELSE "s1", timestamp |-> i,
     user_message |-> "hq" \o ToString(i),
     assistant_response |-> IF i \in failed THEN "" ELSE "ha" \o ToString(i),
     success |-> i \notin failed,
     error_type |-> IF i \in failed THEN "general_error" ELSE "none",
     exchange |-> 0]

\* the UserSession row update_session_stats has left for a session with n
\* successful exchanges: created by the first, incremented by each later one
StoredSession(sid, rows) ==
    LET mine == {r \in rows : r.session_id = sid /\ r.success}
        first == CHOOSE r \in mine : \A o \in mine : r.timestamp <= o.timestamp
        last == CHOOSE r \in mine : \A o \in mine : r.timestamp >= o.timestamp
    IN [id |-> IF sid = "s1" THEN 1 ELSE 2, session_uuid |-> sid,
        created_at |-> first.timestamp, last_activity |-> last.timestamp,
        total_messages |-> Cardinality(mine) - 1, total_tokens |-> 0,
        total_processing_time |-> 0, total_errors |-> 0]

StoredSessions(rows) ==
    {StoredSession(sid, rows) :
        sid \in {x \in {"s1", "s2"} : \E r \in rows : r.session_id = x /\ r.success}}

InitHistory ==
    /\ InitLimiterState
    /\ requests_per_window = 1
    /\ window_seconds = 1
    /\ InitNoChats
    /\ \E n \in 0..MaxStoredRows :
         \E failed \in AtMostOne(1..n), other \in AtMostOne(1..n) :
            /\ conversation_logs = {StoredConversation(i, failed, other) : i \in 1..n}
            /\ user_sessions = StoredSessions(conversation_logs)
            /\ utcnow = n + 1
    /\ InitNoMetrics
    /\ InitLoopsStarted

\* one request and its background tasks
NextHistory ==
    \/ ChatStart(1)
    \/ ProviderReturns(1)
    \/ LogConversation(1)
    \/ UpdateSessionQuery(1)
    \/ UpdateSessionCommit(1)

SpecHistory == InitHistory /\ [][NextHistory]_vars

\* the store after three earlier exchanges: two of session s1 (rows 1 and 3) and
\* one of session s2 (row 2), all answered and all written
InitSessions ==
    /\ InitLimiterState
    /\ requests_per_window = 1
    /\ window_seconds = 1
    /\ InitNoChats
    /\ conversation_logs = {StoredConversation(i, {}, {2}) : i \in 1..3}
    /\ user_sessions = StoredSessions(conversation_logs)
    /\ utcnow = 4
    /\ InitNoMetrics
    /\ InitLoopsStarted

\* requests arriving at that store
SpecSessions == InitSessions /\ [][NextChat]_vars

(***************************************************************************)
(* The loops over a store that holds rows of earlier runs of the process   *)
(***************************************************************************)
\* timestamps of the stored SystemMetrics rows, relative to the start of the
\* process at 0: around the cut-offs of the sweeps of day 1 and day 2
StoredMetricsStamps ==
    {Days(-30), Days(-29) - 1, Days(-29), Days(-29) + 1, Days(-28)}

StoredErrorStamps == {Days(-30), Days(-28)}

StampedRows(stamps) ==
    {[id |-> Cardinality({o \in stamps : o <= t}), timestamp |-> t] : t \in stamps}

\* a session of 31 days ago with two successful exchanges
OldConversations ==
    {[id |-> 1, session_id |-> "s1", timestamp |-> Days(-31),
      user_message |-> "hq1", assistant_response |-> "ha1", success |-> TRUE,
      error_type |-> "none", exchange |-> 0],
     [id |-> 2, session_id |-> "s1", timestamp |-> Days(-31) + 1,
      user_message |-> "hq2", assistant_response |-> "ha2", success |-> TRUE,
      error_type |-> "none", exchange |-> 0]}

InitLoopsCommon ==
    /\ InitLimiterState
    /\ requests_per_window = 1
    /\ window_seconds = 1
    /\ InitNoChats
    /\ utcnow = 0
    /\ conversation_logs = OldConversations
    /\ user_sessions = StoredSessions(OldConversations)
    /\ InitLoopsStarted

\* the process starts over any store built from the stamps above
InitLoops ==
    /\ InitLoopsCommon
    /\ system_metrics \in {StampedRows(stamps) : stamps \in SUBSET StoredMetricsStamps}
    /\ error_logs \in {StampedRows(stamps) : stamps \in SUBSET StoredErrorStamps}

\* the process starts over the store that holds all of them
InitLoopsFullStore ==
    /\ InitLoopsCommon
    /\ system_metrics = StampedRows(StoredMetricsStamps)
    /\ error_logs = StampedRows(StoredErrorStamps)

MetricsLoop == MetricsTry \/ MetricsCaught \/ MetricsWake

CleanupLoop == CleanupWake \/ CleanupSweep \/ CleanupCaught

NextLoops == MetricsLoop \/ CleanupLoop \/ ClockAdvance

SpecLoops == InitLoops /\ [][NextLoops]_vars

\* the event loop runs a task that is ready
SpecLoopsFair ==
    /\ InitLoopsFullStore
    /\ [][NextLoops]_vars
    /\ WF_vars(MetricsLoop)
    /\ WF_vars(CleanupLoop)

(***************************************************************************)
(* Claims on the rate limiter                                              *)
(***************************************************************************)
WindowTicks == window_seconds * TicksPerSecond

\* number of permitted calls of c with timestamp in the trailing window (t - W, t]
PermitsInWindow(c, t) ==
    Cardinality({i \in DOMAIN permits[c] :
                    permits[c][i] > t - WindowTicks /\ permits[c][i] <= t})

\* C1: for every client and every instant t, the number of permitted calls in the
\* trailing window (t - window_seconds, t] is at most requests_per_window
C1_AtMostMaxPermitsPerWindow ==
    \A c \in Clients : \A t \in 0..MaxTime :
        PermitsInWindow(c, t) <= requests_per_window

\* a client has used a full window of permits and was permitted again once the
\* oldest of them had left the window
C1_Witness ==
    \E c \in Clients :
        /\ Len(permits[c]) > requests_per_window
        /\ PermitsInWindow(c, current_time) = requests_per_window
        /\ last_check.client = c /\ last_check.outcome = "deny"

\* the earliest permitted timestamp of c still inside the window of the call at t
EarliestInWindow(c, t) ==
    Min({permits[c][i] : i \in {j \in DOMAIN permits[c] : permits[c][j] > t - WindowTicks}})

\* C2: a denial reports retry_after equal to exactly the time until the oldest
\* in-window timestamp expires, window_seconds - (now - earliest), and it is positive
C2_RetryAfterExactAndPositive ==
    last_check.outcome = "deny" =>
        /\ last_check.retry_after * TicksPerSecond =
               WindowTicks - (last_check.time - EarliestInWindow(last_check.client, last_check.time))
        /\ last_check.retry_after > 0

\* C3: after a denial the stored sequence of the client is exactly the timestamps
\* of its earlier permitted calls that are still in the window
C3_DeniedCallNotCounted ==
    last_check.outcome = "deny" =>
        LET c == last_check.client
            InWin(ts) == ts > last_check.time - WindowTicks
        IN /\ c \in DOMAIN rate_limit_storage
           /\ rate_limit_storage[c] = SelectSeq(permits[c], InWin)

\* a denial that came after an older permit of the same client had expired
C3_Witness ==
    /\ last_check.outcome = "deny"
    /\ Len(permits[last_check.client]) > Len(rate_limit_storage[last_check.client])

(***************************************************************************)
(* Claims on the /chat handler                                             *)
(***************************************************************************)
PriorSuccessful(sid) ==
    {r \in conversation_logs : r.session_id = sid /\ r.success = TRUE}

\* position of row r among rows, oldest first
Rank(r, rows) == Cardinality({o \in rows : o.timestamp <= r.timestamp})

RowOfRank(i, rows) == CHOOSE r \in rows : Rank(r, rows) = i

\* C4: the message sequence sent to the provider holds the min(n, 10) most recent
\* successful exchanges of the session, oldest first, each as a user message
\* followed by its assistant response, and the new user message last
C4_PromptIsLastTenOldestFirst ==
    \A k \in ChatIds : chats[k].pc = "calling" =>
        LET prior == PriorSuccessful(chats[k].session_id)
            n == Cardinality(prior)
            m == IF n < 10 THEN n ELSE 10
            sent == chats[k].messages
        IN /\ Len(sent) = 2 * m + 1
           /\ sent[2 * m + 1] = [role |-> "user", content |-> chats[k].message]
           /\ \A i \in 1..m :
                LET r == RowOfRank(n - m + i, prior) IN
                /\ sent[2 * i - 1] = [role |-> "user", content |-> r.user_message]
                /\ sent[2 * i] = [role |-> "assistant", content |-> r.assistant_response]

\* a request on a session with more than 10 successful exchanges, and a failed
\* one among the stored rows of that session
C4_Witness ==
    \E k \in ChatIds :
        /\ chats[k].pc = "calling"
        /\ Cardinality(PriorSuccessful(chats[k].session_id)) > 10
        /\ \E r \in conversation_logs :
              r.session_id = chats[k].session_id /\ ~r.success /\ r.timestamp > 2

ExchangeRows(k) == {r \in conversation_logs : r.exchange = k}

ClassifiedErrorType(outcome) ==
    CASE outcome = "RateLimitError" -> "api_rate_limit"
      [] outcome = "APIError" -> "api_error"
      [] OTHER -> "general_error"

\* C5: a chat request whose provider call failed has, once its handling is over,
\* exactly one ConversationLog row, with success = FALSE and the classified error_type
C5_FailedProviderCallLogged ==
    \A k \in ChatIds :
        (ChatFinished(k) /\ ProviderRaised(chats[k].provider)) =>
            /\ Cardinality(ExchangeRows(k)) = 1
            /\ \A r \in ExchangeRows(k) :
                  ~r.success /\ r.error_type = ClassifiedErrorType(chats[k].provider)

OnlyChatOfSession(k) ==
    \A j \in ChatIds \ {k} : chats[j].session_id # chats[k].session_id

\* C6: after the first successful exchange of a session without a UserSession row,
\* once both background writes are committed, there is one ConversationLog row of
\* the exchange and one UserSession row of the session, with total_messages = 1
C6_FirstExchangeCountsOneMessage ==
    \A k \in ChatIds :
        ( /\ ChatFinished(k)
          /\ chats[k].response.success
          /\ chats[k].log_write = "committed"
          /\ chats[k].stats_write = "committed"
          /\ OnlyChatOfSession(k) ) =>
            /\ Cardinality(ExchangeRows(k)) = 1
            /\ Cardinality({s \in user_sessions :
                               s.session_uuid = chats[k].session_id}) = 1
            /\ \A s \in user_sessions :
                  s.session_uuid = chats[k].session_id => s.total_messages = 1

WriteFailsNow(k) ==
    \/ chats[k].log_write # "failed" /\ chats'[k].log_write = "failed"
    \/ chats[k].stats_write = "none" /\ chats'[k].stats_write \in {"failed", "conflict"}

\* C10: a failing background write (log_conversation or update_session_stats)
\* changes no table, leaves the response already given as it was, and the
\* handling goes on with the next background task
C10_PersistenceFailureSwallowed ==
    [][\A k \in ChatIds : WriteFailsNow(k) =>
          /\ conversation_logs' = conversation_logs
          /\ user_sessions' = user_sessions
          /\ chats'[k].response = chats[k].response
          /\ chats'[k].pc = "responded"
          /\ chats'[k].tasks = Tail(chats[k].tasks)]_vars

\* a successful exchange whose log_conversation failed and whose
\* update_session_stats then committed
C10_Witness ==
    \E k \in ChatIds :
        /\ ChatFinished(k)
        /\ chats[k].response.success
        /\ chats[k].log_write = "failed"
        /\ chats[k].stats_write = "committed"
        /\ ExchangeRows(k) = {}

(***************************************************************************)
(* Claims on the background loops                                          *)
(***************************************************************************)
SweepCommitsNow == cleanup_pc = "sweep" /\ cleanup_pc' = "sleep"

SweepEndsNow == cleanup_pc = "sweep" /\ cleanup_pc' # "sweep"

\* C7: a sweep that commits deletes every SystemMetrics and ErrorLog row older
\* than now - 30 days and keeps every such row newer than that
C7_SweepDeletesOldKeepsNew ==
    [][SweepCommitsNow =>
          /\ \A r \in system_metrics :
                /\ r.timestamp < utcnow - Days(30) => r \notin system_metrics'
                /\ r.timestamp > utcnow - Days(30) => r \in system_metrics'
          /\ \A r \in error_logs :
                /\ r.timestamp < utcnow - Days(30) => r \notin error_logs'
                /\ r.timestamp > utcnow - Days(30) => r \in error_logs']_vars

\* the sweep of day 1 has just deleted rows of both tables, among them those
\* stamped 31 days ago, and the snapshot stamped 29 days ago is still there
C7_Witness ==
    /\ cleanup_pc = "sleep"
    /\ cleanup_log.result = "ok"
    /\ cleanup_log.old_metrics > 0
    /\ cleanup_log.old_errors > 0
    /\ cleanup_wake = utcnow + CleanupInterval
    /\ \E r \in system_metrics : r.timestamp = utcnow - Days(29)
    /\ \A r \in system_metrics : r.timestamp # utcnow - Days(31)

\* C8: no sweep, committed or failed, changes conversation_logs or user_sessions
C8_SweepLeavesConversationsAndSessions ==
    [][SweepEndsNow =>
          /\ conversation_logs' = conversation_logs
          /\ user_sessions' = user_sessions]_vars

\* a committed sweep has deleted rows while conversations and a session older
\* than the cut-off are still stored
C8_Witness ==
    /\ cleanup_log.result = "ok"
    /\ cleanup_log.old_metrics > 0
    /\ \E r \in conversation_logs : r.timestamp < utcnow - Days(30)
    /\ \E s \in user_sessions : s.last_activity < utcnow - Days(30)

\* C9: neither loop ends because an iteration failed: a failed iteration is
\* followed by the loop's sleep of the same fixed delay (300 s, 86400 s), and a
\* sleep that is over is followed by the next iteration
C9_LoopsSurviveFailures ==
    /\ [](metrics_pc \in {"try", "caught", "sleep"})
    /\ [](cleanup_pc \in {"sweep", "caught", "sleep"})
    /\ (metrics_pc = "caught") ~> (metrics_pc = "sleep" /\ metrics_wake = utcnow + 300)
    /\ (cleanup_pc = "caught") ~> (cleanup_pc = "sleep" /\ cleanup_wake = utcnow + 86400)
    /\ (metrics_pc = "sleep" /\ utcnow >= metrics_wake) ~> (metrics_pc = "try")
    /\ (cleanup_pc = "sleep" /\ utcnow >= cleanup_wake) ~> (cleanup_pc = "sweep")

\* both loops have had a failed iteration and are in a later iteration
C9_Witness ==
    /\ cleanup_log.result = "failed"
    /\ cleanup_pc = "sweep"
    /\ cleanup_runs > 1
    /\ metrics_pc = "try"
    /\ metrics_runs > 1
    /\ \A r \in system_metrics : r.timestamp < 0

(***************************************************************************)
(* Claims on the session bookkeeping                                       *)
(***************************************************************************)
AllChatsSettled == \A k \in ChatIds : chats[k].pc = "idle" \/ ChatFinished(k)

NoWriteFailed ==
    \A k \in ChatIds :
        chats[k].log_write # "failed" /\ chats[k].stats_write \notin {"failed", "conflict"}

\* C11: once every scheduled background write has run (and none of them failed),
\* each ConversationLog row's session_id is the session_uuid of a UserSession row
C11_EveryConversationHasSession ==
    (AllChatsSettled /\ NoWriteFailed) =>
        \A r \in conversation_logs :
            \E s \in user_sessions : s.session_uuid = r.session_id

SameSession(j, k) == j # k /\ chats[j].session_id = chats[k].session_id

UpsertRan(k) == ChatFinished(k) /\ chats[k].stats_write # "none"

\* C12: when two upserts of the same brand-new session_id have finished, both
\* having found no UserSession row in their query, one having committed its row
\* and the other having run into it, the UserSession row has total_messages >= 1;
\* total_messages is never negative
C12_ConcurrentUpsertsCountAtLeastOne ==
    /\ \A s \in user_sessions : s.total_messages >= 0
    /\ \A j, k \in ChatIds :
          ( /\ SameSession(j, k)
            /\ UpsertRan(j) /\ UpsertRan(k)
            /\ chats[j].saw = "absent" /\ chats[k].saw = "absent"
            /\ chats[j].stats_write = "committed"
            /\ chats[k].stats_write = "conflict" ) =>
              \E s \in user_sessions :
                  s.session_uuid = chats[k].session_id /\ s.total_messages >= 1

\* the step is update_session_stats of request k committing the UPDATE of a row
\* its query found
TouchCommitsNow(k) ==
    /\ chats[k].read.state = "found"
    /\ chats[k].stats_write = "none"
    /\ chats'[k].stats_write = "committed"

\* the table after one row got a new last_activity and total_messages and nothing
\* else changed
OnlyTouched(id, count) ==
    user_sessions' =
        {IF r.id = id THEN [r EXCEPT !.last_activity = utcnow, !.total_messages = count]
         ELSE r : r \in user_sessions}

StoredCount(id) == (CHOOSE r \in user_sessions : r.id = id).total_messages

\* C13 as stated: a committed update_session_stats of an existing session sets
\* last_activity to now and leaves total_messages exactly 1 above the stored value,
\* every other row and every other counter unchanged
C13_TouchAddsOneToStored ==
    [][\A k \in ChatIds :
         TouchCommitsNow(k) =>
             OnlyTouched(chats[k].read.id, StoredCount(chats[k].read.id) + 1)]_vars

\* C13 amended: a committed update_session_stats of an existing session sets
\* last_activity to now and total_messages to 1 above the value its query read,
\* every other row and every other counter unchanged; that is exactly 1 above the
\* stored value when no other upsert of the session committed since the query
C13_TouchAddsOneToRead ==
    [][\A k \in ChatIds :
         TouchCommitsNow(k) =>
             /\ OnlyTouched(chats[k].read.id, chats[k].read.total_messages + 1)
             /\ (StoredCount(chats[k].read.id) = chats[k].read.total_messages =>
                    \E r \in user_sessions' :
                        /\ r.id = chats[k].read.id
                        /\ r.total_messages = StoredCount(chats[k].read.id) + 1)]_vars

\* two upserts of the stored session s1 (total_messages 1) have both committed an
\* UPDATE, the second from a stale read: the row holds 2 and s2's row is as stored
C13_Witness ==
    /\ \A k \in {1, 2} :
          chats[k].session_id = "s1" /\ chats[k].saw = "found"
          /\ chats[k].stats_write = "committed"
    /\ \E r \in user_sessions :
          r.session_uuid = "s1" /\ r.total_messages = 2 /\ r.last_activity > 4
    /\ \E r \in user_sessions : r.session_uuid = "s2" /\ r.last_activity = 2

(* Claims on retrying after a denial *)
\* the step is a call of rate_limit_check by the client whose denial is the latest
\* check, made no earlier than retry_after seconds after that denial
RetriesAfterHintNow(c) ==
    /\ last_check.client = c
    /\ last_check.outcome = "deny"
    /\ current_time >= last_check.time + last_check.retry_after * TicksPerSecond
    /\ last_check' # last_check
    /\ last_check'.client = c

\* C14: a client denied at time t with retry_after = r is permitted when it next
\* calls at any time >= t + r
C14_PermittedAfterRetryAfter ==
    [][\A c \in Clients : RetriesAfterHintNow(c) => last_check'.outcome = "permit"]_vars

(* Claims on the order of the limiter and the rest of the handler *)
\* request k was answered 429 by rate_limit_check
LimiterDenied(k) ==
    chats[k].pc = "responded" /\ chats[k].response = HttpError(429, "none")

\* request k passed rate_limit_check
LimiterPermitted(k) == chats[k].pc # "idle" /\ ~LimiterDenied(k)

PermittedOf(c) == {k \in ChatIds : LimiterPermitted(k) /\ chats[k].client = c}

SlotsOf(c) == IF c \in DOMAIN rate_limit_storage THEN Len(rate_limit_storage[c]) ELSE 0

\* C15: a request denied by the limiter never reaches the provider, builds no
\* message list, schedules no background write and leaves no ConversationLog row;
\* every permitted request holds a slot of its client's window from before the
\* provider call on, whatever the provider call does
C15_LimiterRunsFirst ==
    /\ \A k \in ChatIds :
          LimiterDenied(k) =>
              /\ chats[k].provider = "none"
              /\ chats[k].messages = <<>>
              /\ chats[k].tasks = <<>>
              /\ chats[k].log_write = "none" /\ chats[k].stats_write = "none"
              /\ ExchangeRows(k) = {}
    /\ \A c \in Clients : SlotsOf(c) = Cardinality(PermittedOf(c))

\* a client's permitted request whose provider call raised, and a later request
\* of the same client denied because that slot is still counted
C15_Witness ==
    \E j, k \in ChatIds :
        /\ j < k
        /\ chats[j].client = chats[k].client
        /\ LimiterPermitted(j) /\ ProviderRaised(chats[j].provider)
        /\ LimiterDenied(k)
        /\ ChatFinished(j)

====
